---- MODULE Spec2Model ----
(***************************************************************************)
(* A model of differ.h: the Myers middle-snake finder (diffPartial), the   *)
(* slice work loop of diff, the operation synthesizer and the optional     *)
(* move detector.  Positions are 0-based as in the source; a TLA+ sequence *)
(* s holds the element of position i at s[i + 1].                          *)
(***************************************************************************)
EXTENDS Integers, Sequences, FiniteSets, TLC

VARIABLES oldList, newList, detectMoves, pc, slices, snakes,
          forward, backward, editOperations, i, last

vars == <<oldList, newList, detectMoves, pc, slices, snakes,
          forward, backward, editOperations, i, last>>

\* Bounds of the input domain.
MaxLen == 3
Elements == {"a", "b"}

\* The lists of at most n elements.
SeqsUpTo(n) == UNION {[1 .. len -> Elements] : len \in 0 .. n}

Abs(n) == IF n < 0 THEN -n ELSE n

\* Container::size() and Container::operator[] at a 0-based position.
Size(list) == Len(list)
InRange(list, pos) == 0 <= pos /\ pos < Len(list)
At(list, pos) == list[pos + 1]

----------------------------------------------------------------------------
\* struct Snake, struct Slice.

Snake(x1, x2, y1, y2) == [x1 |-> x1, x2 |-> x2, y1 |-> y1, y2 |-> y2]
Slice(x1, x2, y1, y2) == [x1 |-> x1, x2 |-> x2, y1 |-> y1, y2 |-> y2]

\* isAddition without its test of the new side.
IsAdditionNoY(snake) == snake.x1 = snake.x2
isAddition(snake) == snake.x1 = snake.x2 /\ snake.y1 /= snake.y2
isRemoval(snake) == snake.x1 /= snake.x2 /\ snake.y1 = snake.y2

\* isNull that takes no slice for null.
IsNullNever(slice) == FALSE
isNull(slice) == (slice.x2 - slice.x1) = 0 /\ (slice.y2 - slice.y1) = 0

----------------------------------------------------------------------------
\* The scratch arrays of diff: max, and the length of forward and backward.

ScratchMax(oldLen, newLen) == oldLen + newLen + Abs(oldLen - newLen)
\* The arrays resized to max instead of 2 * max.
ScratchSizeHalf(max) == max
ScratchSize(max) == 2 * max
NewScratch(max) == [idx \in 0 .. (ScratchSize(max) - 1) |-> 0]

(***************************************************************************)
(* The search state of one diffPartial invocation: the two arrays, and     *)
(* what the invocation did with them.  wf and wb are the indices written   *)
(* by this invocation; stale is set by a read of an entry this invocation  *)
(* did not write; oob is set by an access outside an array or a list (the  *)
(* value such a read yields is taken as 0, and the invocation's result is  *)
(* then any result, see Outcomes).                                         *)
(***************************************************************************)
Search(f, b) ==
    [f |-> f, b |-> b, wf |-> {}, wb |-> {}, stale |-> FALSE, oob |-> FALSE,
     found |-> FALSE, unreachable |-> FALSE, d |-> 0, snake |-> Snake(0, 0, 0, 0)]

Rd(arr, idx) == IF idx \in DOMAIN arr THEN arr[idx] ELSE 0
Wr(arr, idx, v) == IF idx \in DOMAIN arr THEN [arr EXCEPT ![idx] = v] ELSE arr

ReadF(s, idxs) ==
    [s EXCEPT !.oob = @ \/ ~(idxs \subseteq DOMAIN s.f),
              !.stale = @ \/ ~(idxs \subseteq s.wf)]
ReadB(s, idxs) ==
    [s EXCEPT !.oob = @ \/ ~(idxs \subseteq DOMAIN s.b),
              !.stale = @ \/ ~(idxs \subseteq s.wb)]
WriteF(s, idx, v) ==
    [s EXCEPT !.f = Wr(@, idx, v), !.wf = @ \cup {idx},
              !.oob = @ \/ idx \notin DOMAIN s.f]
WriteB(s, idx, v) ==
    [s EXCEPT !.b = Wr(@, idx, v), !.wb = @ \cup {idx},
              !.oob = @ \/ idx \notin DOMAIN s.b]

\* The initial writes without forward[offset + 1] = 0.
InitScratchBackwardOnly(s, offset, newSize) == WriteB(s, offset + 1, newSize)
\* forward[offset + 1] = 0; backward[offset + 1] = newSize;
InitScratch(s, offset, newSize) ==
    WriteB(WriteF(s, offset + 1, 0), offset + 1, newSize)

\* max rounded down instead of up.
SearchMaxFloor(oldSize, newSize) == (oldSize + newSize) \div 2

\* const qsizetype max = (oldSize + newSize + 1) / 2;
SearchMax(oldSize, newSize) == (oldSize + newSize + 1) \div 2

\* A forward search that does not follow the diagonal.
SlideForwardNone(slice, src, dst, x, y) == [x |-> x, oob |-> FALSE]

\* while (x < oldSize && y < newSize && src[slice.x1 + x] == dst[slice.y1 + y])
\* The result is the x reached and whether an element access was out of range.
RECURSIVE SlideForward(_, _, _, _, _)
SlideForward(slice, src, dst, x, y) ==
    IF x < slice.x2 - slice.x1 /\ y < slice.y2 - slice.y1
    THEN IF InRange(src, slice.x1 + x) /\ InRange(dst, slice.y1 + y)
         THEN IF At(src, slice.x1 + x) = At(dst, slice.y1 + y)
              THEN SlideForward(slice, src, dst, x + 1, y + 1)
              ELSE [x |-> x, oob |-> FALSE]
         ELSE [x |-> x, oob |-> TRUE]
    ELSE [x |-> x, oob |-> FALSE]

\* while (x > 0 && y > 0 && src[slice.x1 + x - 1] == dst[slice.y1 + y - 1])
RECURSIVE SlideBackward(_, _, _, _, _)
SlideBackward(slice, src, dst, x, y) ==
    IF x > 0 /\ y > 0
    THEN IF InRange(src, slice.x1 + x - 1) /\ InRange(dst, slice.y1 + y - 1)
         THEN IF At(src, slice.x1 + x - 1) = At(dst, slice.y1 + y - 1)
              THEN SlideBackward(slice, src, dst, x - 1, y - 1)
              ELSE [y |-> y, oob |-> FALSE]
         ELSE [y |-> y, oob |-> TRUE]
    ELSE [y |-> y, oob |-> FALSE]

----------------------------------------------------------------------------
\* diffPartial: one iteration of the forward loop (diagonal k at distance d).

\* const bool front = (delta % 2) != 0;
Front(delta) == (delta % 2) /= 0

\* Decide whether to go downward or rightward:
\* k == -d || (k != d && forward[offset + k - 1] < forward[offset + k + 1])
ForwardDown(s, offset, d, k) ==
    k = -d \/ (k /= d /\ Rd(s.f, offset + k - 1) < Rd(s.f, offset + k + 1))

ForwardStep(slice, src, dst, s, offset, d, k) ==
    LET oldSize == slice.x2 - slice.x1
        newSize == slice.y2 - slice.y1
        delta == oldSize - newSize
        front == Front(delta)
        s1 == IF k /= -d /\ k /= d
              THEN ReadF(s, {offset + k - 1, offset + k + 1}) ELSE s
        down == ForwardDown(s, offset, d, k)
        s2 == ReadF(s1, {IF down THEN offset + k + 1 ELSE offset + k - 1})
        ox == IF down THEN Rd(s.f, offset + k + 1) ELSE Rd(s.f, offset + k - 1)
        x0 == IF down THEN ox ELSE ox + 1
        y0 == x0 - k
        oy == IF d = 0 \/ x0 /= ox THEN y0 ELSE y0 - 1
        sl == SlideForward(slice, src, dst, x0, y0)
        x == sl.x
        y == x - k
        s3 == WriteF([s2 EXCEPT !.oob = @ \/ sl.oob], offset + k, x)
        c == k - delta
        check == front /\ c >= -d + 1 /\ c <= d - 1
        s4 == IF check THEN ReadB(s3, {offset + c}) ELSE s3
        by == Rd(s.b, offset + c)
        bx == by + k
    IN  IF check /\ y >= by
        THEN [s4 EXCEPT !.found = TRUE, !.d = d,
                        !.snake = IF x /= bx THEN Snake(bx, x, by, y)
                                             ELSE Snake(ox, x, oy, y)]
        ELSE s4

\* diffPartial: one iteration of the backward loop (diagonal c at distance d).
\* Decide whether to go leftward or upward:
\* c == -d || (c != d && backward[offset + c - 1] > backward[offset + c + 1])
BackwardLeft(s, offset, d, c) ==
    c = -d \/ (c /= d /\ Rd(s.b, offset + c - 1) > Rd(s.b, offset + c + 1))

BackwardStep(slice, src, dst, s, offset, d, c) ==
    LET oldSize == slice.x2 - slice.x1
        newSize == slice.y2 - slice.y1
        delta == oldSize - newSize
        front == Front(delta)
        s1 == IF c /= -d /\ c /= d
              THEN ReadB(s, {offset + c - 1, offset + c + 1}) ELSE s
        left == BackwardLeft(s, offset, d, c)
        s2 == ReadB(s1, {IF left THEN offset + c + 1 ELSE offset + c - 1})
        oy == IF left THEN Rd(s.b, offset + c + 1) ELSE Rd(s.b, offset + c - 1)
        y0 == IF left THEN oy ELSE oy - 1
        k == c + delta
        x0 == y0 + k
        ox == IF d = 0 \/ y0 /= oy THEN x0 ELSE x0 + 1
        sl == SlideBackward(slice, src, dst, x0, y0)
        y == sl.y
        x == y + k
        s3 == WriteB([s2 EXCEPT !.oob = @ \/ sl.oob], offset + c, y)
        check == ~front /\ k >= -d /\ k <= d
        s4 == IF check THEN ReadF(s3, {offset + k}) ELSE s3
        fx == Rd(s3.f, offset + k)
        fy == fx - k
    IN  IF check /\ x <= fx
        THEN [s4 EXCEPT !.found = TRUE, !.d = d,
                        !.snake = IF x /= fx THEN Snake(x, fx, y, fy)
                                             ELSE Snake(x, ox, y, oy)]
        ELSE s4

(***************************************************************************)
(* The three loops.  Each iteration's search state is bound to a name      *)
(* (s1, the one element of a singleton set) before the next iteration      *)
(* uses it, so that it is computed once.                                   *)
(***************************************************************************)
\* for (qsizetype k = -d; k <= d; k += 2): the iterations from diagonal k on;
\* s is the search state the previous iteration left.
RECURSIVE ForwardLoop(_, _, _, _, _, _, _)
ForwardLoop(slice, src, dst, s, offset, d, k) ==
    IF s.found \/ k > d THEN s
    ELSE CHOOSE r \in {ForwardLoop(slice, src, dst, s1, offset, d, k + 2) :
                         s1 \in {ForwardStep(slice, src, dst, s, offset, d, k)}} : TRUE

\* for (qsizetype c = -d; c <= d; c += 2)
RECURSIVE BackwardLoop(_, _, _, _, _, _, _)
BackwardLoop(slice, src, dst, s, offset, d, c) ==
    IF s.found \/ c > d THEN s
    ELSE CHOOSE r \in {BackwardLoop(slice, src, dst, s1, offset, d, c + 2) :
                         s1 \in {BackwardStep(slice, src, dst, s, offset, d, c)}} : TRUE

\* for (qsizetype d = 0; d <= max; ++d) ... Q_UNREACHABLE();
RECURSIVE SearchLoop(_, _, _, _, _, _)
SearchLoop(slice, src, dst, s, offset, d) ==
    IF s.found THEN s
    ELSE IF d > SearchMax(slice.x2 - slice.x1, slice.y2 - slice.y1)
    THEN [s EXCEPT !.unreachable = TRUE, !.d = d]
    ELSE CHOOSE r \in
           {SearchLoop(slice, src, dst, s2, offset, d + 1) :
              s2 \in {BackwardLoop(slice, src, dst, s1, offset, d, -d) :
                        s1 \in {ForwardLoop(slice, src, dst, s, offset, d, -d)}}} : TRUE

(***************************************************************************)
(* diffPartial(slice, src, dst, forward, backward, offset): the search     *)
(* state at its return, the returned snake in .snake.                      *)
(***************************************************************************)
diffPartial(slice, src, dst, f, b, offset) ==
    LET oldSize == slice.x2 - slice.x1
        newSize == slice.y2 - slice.y1
    IN  IF oldSize < 1 \/ newSize < 1
        THEN [Search(f, b) EXCEPT !.found = TRUE,
                                  !.snake = Snake(0, oldSize, 0, newSize)]
        ELSE SearchLoop(slice, src, dst,
                        InitScratch(Search(f, b), offset, newSize), offset, 0)

----------------------------------------------------------------------------
\* diff: the slice work loop.

\* The snake offset by slice.x1 on both axes.
OffsetSnakeByX(snake, slice) ==
    Snake(snake.x1 + slice.x1, snake.x2 + slice.x1,
          snake.y1 + slice.x1, snake.y2 + slice.x1)
\* snake.x1 += slice.x1; snake.x2 += slice.x1; snake.y1 += slice.y1; ...
OffsetSnake(snake, slice) ==
    Snake(snake.x1 + slice.x1, snake.x2 + slice.x1,
          snake.y1 + slice.y1, snake.y2 + slice.y1)

LeftOf(slice, snake) == Slice(slice.x1, snake.x1, slice.y1, snake.y1)
RightOf(slice, snake) == Slice(snake.x2, slice.x2, snake.y2, slice.y2)

\* if (snake.isAddition() || snake.isRemoval()) snakes.push_back(snake);
RecordSnake(sn, snake) ==
    IF isAddition(snake) \/ isRemoval(snake) THEN Append(sn, snake) ELSE sn

\* if (!left.isNull()) slices.push(left); if (!right.isNull()) slices.push(right);
Pushed(slice, snake) ==
    (IF isNull(LeftOf(slice, snake)) THEN <<>> ELSE <<LeftOf(slice, snake)>>) \o
    (IF isNull(RightOf(slice, snake)) THEN <<>> ELSE <<RightOf(slice, snake)>>)

RemoveAt(seq, n) == SubSeq(seq, 1, n - 1) \o SubSeq(seq, n + 1, Len(seq))

(***************************************************************************)
(* What one diffPartial call hands back to diff.  A call that reached      *)
(* Q_UNREACHABLE() or accessed memory out of range has undefined           *)
(* behaviour: it aborts, or it returns any snake.                          *)
(***************************************************************************)
Outcomes(r, slice) ==
    IF r.unreachable \/ r.oob
    THEN {[snake |-> r.snake, aborted |-> TRUE]} \cup
         {[snake |-> Snake(x1, x2, y1, y2), aborted |-> FALSE] :
             x1 \in 0 .. (slice.x2 - slice.x1), x2 \in 0 .. (slice.x2 - slice.x1),
             y1 \in 0 .. (slice.y2 - slice.y1), y2 \in 0 .. (slice.y2 - slice.y1)}
    ELSE {[snake |-> r.snake, aborted |-> FALSE]}

NoCall ==
    [called |-> FALSE, slice |-> Slice(0, 0, 0, 0), rel |-> Snake(0, 0, 0, 0),
     snake |-> Snake(0, 0, 0, 0), d |-> 0, unreachable |-> FALSE, oob |-> FALSE,
     stale |-> FALSE, top |-> TRUE, pushed |-> <<>>]

\* The rest of the loop body, once diffPartial has returned r for the slice
\* of position n of the work list.
Continue(n, slice, r, out, snake) ==
    /\ forward' = r.f
    /\ backward' = r.b
    /\ last' = [called |-> TRUE, slice |-> slice, rel |-> out.snake,
                snake |-> snake, d |-> r.d,
                unreachable |-> r.unreachable, oob |-> r.oob,
                stale |-> r.stale, top |-> (n = Len(slices)),
                pushed |-> IF out.aborted THEN <<>> ELSE Pushed(slice, snake)]
    /\ IF out.aborted
       THEN /\ pc' = "aborted"
            /\ UNCHANGED <<slices, snakes>>
       ELSE /\ pc' = "loop"
            /\ snakes' = RecordSnake(snakes, snake)
            /\ slices' = RemoveAt(slices, n) \o Pushed(slice, snake)

Return(n, slice, r) ==
    \E out \in Outcomes(r, slice) :
        Continue(n, slice, r, out, OffsetSnake(out.snake, slice))

\* One iteration of while (!slices.empty()), on the slice at position n of the
\* work list.
Process(n) ==
    /\ pc = "loop"
    /\ n \in 1 .. Len(slices)
    /\ \E r \in {diffPartial(slices[n], oldList, newList, forward, backward,
                             ScratchMax(Size(oldList), Size(newList)))} :
          Return(n, slices[n], r)
    /\ UNCHANGED <<oldList, newList, detectMoves, editOperations, i>>

\* The code's order: slices.top(); slices.pop();
ProcessSlice == Process(Len(slices))

\* Any pending slice next (the order the work list is emptied in is free).
ProcessAnySlice == \E n \in 1 .. Len(slices) : Process(n)

----------------------------------------------------------------------------
\* diff: the operation synthesizer.

\* [](const auto &a, const auto &b) { return a.x1 == b.x1 ? a.y1 < b.y1 : a.x1 < b.x1; }
SnakeLess(a, b) == IF a.x1 = b.x1 THEN a.y1 < b.y1 ELSE a.x1 < b.x1

RECURSIVE InsertSorted(_, _)
InsertSorted(sorted, snake) ==
    IF sorted = <<>> THEN <<snake>>
    ELSE IF SnakeLess(snake, Head(sorted)) THEN <<snake>> \o sorted
    ELSE <<Head(sorted)>> \o InsertSorted(Tail(sorted), snake)

\* std::sort(snakes.begin(), snakes.end(), ...): recorded snakes start at
\* pairwise different (x1, y1), so the sorted order is unique.
RECURSIVE SortSnakes(_)
SortSnakes(sn) ==
    IF sn = <<>> THEN <<>>
    ELSE InsertSorted(SortSnakes(Tail(sn)), Head(sn))

InsertOperation(index, offset, count) ==
    [type |-> "Insert", index |-> index, offset |-> offset, count |-> count]
RemoveOperation(offset, count) ==
    [type |-> "Remove", offset |-> offset, count |-> count]
MoveOperation(from, to, count) ==
    [type |-> "Move", from |-> from, to |-> to, count |-> count]

\* The body of the loop of lines 284-297, for one snake.
OperationOf(snake) ==
    IF isAddition(snake)
    THEN <<InsertOperation(snake.x1, snake.y1, snake.y2 - snake.y1)>>
    ELSE IF isRemoval(snake)
    THEN <<RemoveOperation(snake.x1, snake.x2 - snake.x1)>>
    ELSE <<>>

\* The body of the loop of lines 300-317, for one snake.
SubdividedOf(snake) ==
    IF isAddition(snake)
    THEN [j \in 1 .. (snake.y2 - snake.y1) |->
            InsertOperation(snake.x1 + (j - 1), snake.y1 + (j - 1), 1)]
    ELSE IF isRemoval(snake)
    THEN [j \in 1 .. (snake.x2 - snake.x1) |->
            RemoveOperation(snake.x1 + (j - 1), 1)]
    ELSE <<>>

\* for (auto it = snakes.crbegin(); it != snakes.crend(); ++it): from the
\* snake at position n of the sorted list down to the first.
RECURSIVE Emit(_, _)
Emit(sorted, n) ==
    IF n = 0 THEN <<>> ELSE OperationOf(sorted[n]) \o Emit(sorted, n - 1)

RECURSIVE EmitSubdivided(_, _)
EmitSubdivided(sorted, n) ==
    IF n = 0 THEN <<>> ELSE SubdividedOf(sorted[n]) \o EmitSubdivided(sorted, n - 1)

\* The loop has ended, options has no DetectMoves: sort, emit, return.
EmitOperations ==
    /\ pc = "loop"
    /\ slices = <<>>
    /\ ~detectMoves
    /\ snakes' = SortSnakes(snakes)
    /\ editOperations' = Emit(SortSnakes(snakes), Len(snakes))
    /\ pc' = "done"
    /\ UNCHANGED <<oldList, newList, detectMoves, slices, forward, backward, i, last>>

\* The loop has ended, options has DetectMoves: sort, subdivide.
Subdivide ==
    /\ pc = "loop"
    /\ slices = <<>>
    /\ detectMoves
    /\ snakes' = SortSnakes(snakes)
    /\ editOperations' = EmitSubdivided(SortSnakes(snakes), Len(snakes))
    /\ i' = 0
    /\ pc' = "moves"
    /\ UNCHANGED <<oldList, newList, detectMoves, slices, forward, backward, last>>

----------------------------------------------------------------------------
\* diff: the move detector.

\* oldList[remove->offset] != newList[insert->offset] (false: the two are equal).
SameElement(src, remove, dst, insert) ==
    /\ InRange(src, remove.offset)
    /\ InRange(dst, insert.offset)
    /\ At(src, remove.offset) = At(dst, insert.offset)

Min(S) == CHOOSE m \in S : \A n \in S : m <= n

(***************************************************************************)
(* One iteration of for (int i = 0; i < editOperations.size(); ++i): the   *)
(* operation of 0-based position n is paired with the first later          *)
(* operation of the other kind that carries an equal element.              *)
(***************************************************************************)
DetectMove(ops, n, src, dst) ==
    LET op == ops[n + 1]
        removes == {j \in (n + 2) .. Len(ops) :
                      ops[j].type = "Remove" /\ SameElement(src, ops[j], dst, op)}
        inserts == {j \in (n + 2) .. Len(ops) :
                      ops[j].type = "Insert" /\ SameElement(src, op, dst, ops[j])}
    IN  IF op.type = "Insert" /\ removes /= {}
        THEN LET j == Min(removes)
                 shifted == [m \in 1 .. Len(ops) |->
                               IF m > n + 1 /\ m < j /\ ops[m].type = "Insert"
                               THEN [ops[m] EXCEPT !.index = @ - 1]
                               ELSE ops[m]]
                 moved == [shifted EXCEPT
                             ![n + 1] = MoveOperation(ops[j].offset, op.index - 1, 1)]
             IN  RemoveAt(moved, j)
        ELSE IF op.type = "Remove" /\ inserts /= {}
        THEN LET j == Min(inserts)
                 moved == [ops EXCEPT
                             ![n + 1] = MoveOperation(op.offset, ops[j].index, 1)]
             IN  RemoveAt(moved, j)
        ELSE ops

DetectMoveStep ==
    /\ pc = "moves"
    /\ i < Len(editOperations)
    /\ editOperations' = DetectMove(editOperations, i, oldList, newList)
    /\ i' = i + 1
    /\ UNCHANGED <<oldList, newList, detectMoves, pc, slices, snakes,
                   forward, backward, last>>

\* i == editOperations.size(): return editOperations;
FinishMoves ==
    /\ pc = "moves"
    /\ i >= Len(editOperations)
    /\ pc' = "done"
    /\ UNCHANGED <<oldList, newList, detectMoves, slices, snakes,
                   forward, backward, editOperations, i, last>>

----------------------------------------------------------------------------
\* The state at the entry of the work loop of diff(oldList, newList, options).

Init ==
    /\ oldList \in SeqsUpTo(MaxLen)
    /\ newList \in SeqsUpTo(MaxLen)
    /\ detectMoves \in BOOLEAN
    /\ pc = "loop"
    /\ slices = <<Slice(0, Size(oldList), 0, Size(newList))>>
    /\ snakes = <<>>
    /\ forward = NewScratch(ScratchMax(Size(oldList), Size(newList)))
    /\ backward = NewScratch(ScratchMax(Size(oldList), Size(newList)))
    /\ editOperations = <<>>
    /\ i = 0
    /\ last = NoCall

Next ==
    \/ ProcessSlice
    \/ EmitOperations
    \/ Subdivide
    \/ DetectMoveStep
    \/ FinishMoves

Spec == Init /\ [][Next]_vars

\* diff is a sequential function: it takes its next step until it returns.
FairSpec == Spec /\ WF_vars(Next)

\* diff with the work list emptied in any order.
NextAnyOrder ==
    \/ ProcessAnySlice
    \/ EmitOperations
    \/ Subdivide
    \/ DetectMoveStep
    \/ FinishMoves

SpecAnyOrder == Init /\ [][NextAnyOrder]_vars

----------------------------------------------------------------------------
(***************************************************************************)
(* What the operations mean to the caller that applies them, first one     *)
(* first, to a copy of the old list (the doc comment of diff and the       *)
(* members of InsertOperation, RemoveOperation and MoveOperation).  The    *)
(* result is the list and whether every position was in range when used.   *)
(***************************************************************************)
ApplyOperation(cur, op, dst) ==
    IF op.type = "Insert"
    THEN IF /\ 0 <= op.index /\ op.index <= Len(cur)
            /\ 0 <= op.offset /\ 0 <= op.count /\ op.offset + op.count <= Len(dst)
         THEN [ok |-> TRUE,
               list |-> SubSeq(cur, 1, op.index) \o
                        SubSeq(dst, op.offset + 1, op.offset + op.count) \o
                        SubSeq(cur, op.index + 1, Len(cur))]
         ELSE [ok |-> FALSE, list |-> cur]
    ELSE IF op.type = "Remove"
    THEN IF 0 <= op.offset /\ 0 <= op.count /\ op.offset + op.count <= Len(cur)
         THEN [ok |-> TRUE,
               list |-> SubSeq(cur, 1, op.offset) \o
                        SubSeq(cur, op.offset + op.count + 1, Len(cur))]
         ELSE [ok |-> FALSE, list |-> cur]
    ELSE IF /\ 0 <= op.from /\ op.from < Len(cur)
            /\ 0 <= op.to /\ op.to < Len(cur)
         THEN [ok |-> TRUE,
               list |-> SubSeq(RemoveAt(cur, op.from + 1), 1, op.to) \o
                        <<cur[op.from + 1]>> \o
                        SubSeq(RemoveAt(cur, op.from + 1), op.to + 1, Len(cur) - 1)]
         ELSE [ok |-> FALSE, list |-> cur]

RECURSIVE ApplyFrom(_, _, _, _)
ApplyFrom(acc, ops, n, dst) ==
    IF n > Len(ops) \/ ~acc.ok THEN acc
    ELSE ApplyFrom(ApplyOperation(acc.list, ops[n], dst), ops, n + 1, dst)

Applied == ApplyFrom([ok |-> TRUE, list |-> oldList], editOperations, 1, newList)

\* The length of a longest common subsequence of the first n elements of a
\* and the first m elements of b.
RECURSIVE LCS(_, _, _, _)
LCS(a, b, n, m) ==
    IF n = 0 \/ m = 0 THEN 0
    ELSE IF a[n] = b[m] THEN 1 + LCS(a, b, n - 1, m - 1)
    ELSE IF LCS(a, b, n - 1, m) >= LCS(a, b, n, m - 1)
         THEN LCS(a, b, n - 1, m) ELSE LCS(a, b, n, m - 1)

RECURSIVE SumCounts(_, _)
SumCounts(ops, n) == IF n = 0 THEN 0 ELSE ops[n].count + SumCounts(ops, n - 1)

Returned == pc = "done"
Degenerate(slice) == slice.x2 - slice.x1 < 1 \/ slice.y2 - slice.y1 < 1
Extent(slice) == (slice.x2 - slice.x1) + (slice.y2 - slice.y1)

\* diff(src, dst, moves) as one function, the work list emptied in the code's
\* order (top of the stack first).
RECURSIVE RunSlices(_, _, _, _, _, _)
NextRun(stack, sn, src, dst, slice, r) ==
    RunSlices(SubSeq(stack, 1, Len(stack) - 1) \o
                  Pushed(slice, OffsetSnake(r.snake, slice)),
              RecordSnake(sn, OffsetSnake(r.snake, slice)), r.f, r.b, src, dst)
RunSlices(stack, sn, f, b, src, dst) ==
    IF stack = <<>> THEN sn
    ELSE CHOOSE run \in
           {NextRun(stack, sn, src, dst, stack[Len(stack)], r) :
              r \in {diffPartial(stack[Len(stack)], src, dst, f, b,
                                 ScratchMax(Size(src), Size(dst)))}} : TRUE

DiffSnakes(src, dst) ==
    SortSnakes(RunSlices(<<Slice(0, Size(src), 0, Size(dst))>>, <<>>,
                         NewScratch(ScratchMax(Size(src), Size(dst))),
                         NewScratch(ScratchMax(Size(src), Size(dst))), src, dst))

RECURSIVE DetectMovesFrom(_, _, _, _)
DetectMovesFrom(ops, n, src, dst) ==
    IF n >= Len(ops) THEN ops
    ELSE DetectMovesFrom(DetectMove(ops, n, src, dst), n + 1, src, dst)

OperationsOf(sorted, src, dst, moves) ==
    IF moves
    THEN DetectMovesFrom(EmitSubdivided(sorted, Len(sorted)), 0, src, dst)
    ELSE Emit(sorted, Len(sorted))

----------------------------------------------------------------------------
\* C1: without move detection, the returned operations applied in order to a
\* copy of the old list give the new list, every position in range when used.
RoundTrip == (Returned /\ ~detectMoves) => (Applied.ok /\ Applied.list = newList)

\* C2: without move detection, the counts of the returned operations add up to
\* |old| + |new| - 2 * LCS(old, new).
Minimality ==
    (Returned /\ ~detectMoves) =>
        SumCounts(editOperations, Len(editOperations)) =
            Len(oldList) + Len(newList)
                - 2 * LCS(oldList, newList, Len(oldList), Len(newList))

MinimalityWitness ==
    /\ Returned /\ ~detectMoves
    /\ \E n, m \in 1 .. Len(editOperations) :
          editOperations[n].type = "Insert" /\ editOperations[m].type = "Remove"
    /\ LCS(oldList, newList, Len(oldList), Len(newList)) >= 1

\* C3: the diff of a list with itself is empty, with and without move detection.
Identity == (Returned /\ oldList = newList) => editOperations = <<>>

IdentityWitness ==
    /\ Returned /\ oldList = newList /\ Len(oldList) >= 2 /\ detectMoves
    /\ editOperations = <<>>

\* C4: with move detection, the returned operations applied in order to a copy
\* of the old list give the new list.
RoundTripMoves == (Returned /\ detectMoves) => (Applied.ok /\ Applied.list = newList)

\* C5: diffPartial never reaches Q_UNREACHABLE(): the search of a slice with two
\* non-empty sides returns at a d of 0 .. ceil((oldSize + newSize) / 2).
NeverUnreachable ==
    last.called =>
        /\ ~last.unreachable
        /\ 0 <= last.d
        /\ 2 * last.d <= Extent(last.slice) + 1

NeverUnreachableWitness ==
    /\ last.called /\ ~Degenerate(last.slice)
    /\ last.d >= 2
    /\ last.d = (Extent(last.slice) + 1) \div 2

\* C6: diff returns, and every slice pushed after a slice was processed is
\* strictly smaller than that slice.
Terminates ==
    /\ <>Returned
    /\ [][\A n \in 1 .. Len(last'.pushed) :
             Extent(last'.pushed[n]) < Extent(last'.slice)]_vars

TerminatesWitness ==
    /\ Returned /\ Len(snakes) >= 2 /\ Len(last.pushed) = 0

\* C7: the snake diffPartial returns for a slice with two non-empty sides is
\* one edit step or a non-empty diagonal run of equal elements.
MiddleSnakeValid ==
    (last.called /\ ~Degenerate(last.slice)) =>
        LET s == last.snake
        IN  \/ s.x1 = s.x2 /\ s.y2 - s.y1 = 1
            \/ s.y1 = s.y2 /\ s.x2 - s.x1 = 1
            \/ /\ s.x2 - s.x1 = s.y2 - s.y1
               /\ s.x2 - s.x1 >= 1
               /\ \A n \in 0 .. (s.x2 - s.x1 - 1) :
                     /\ InRange(oldList, s.x1 + n)
                     /\ InRange(newList, s.y1 + n)
                     /\ At(oldList, s.x1 + n) = At(newList, s.y1 + n)

\* C8: every pending slice lies in the two lists with x1 <= x2 and y1 <= y2,
\* and the snake of the slice just processed lies inside that slice.
SliceInvariant ==
    /\ \A n \in 1 .. Len(slices) :
          /\ 0 <= slices[n].x1 /\ slices[n].x1 <= slices[n].x2
          /\ slices[n].x2 <= Len(oldList)
          /\ 0 <= slices[n].y1 /\ slices[n].y1 <= slices[n].y2
          /\ slices[n].y2 <= Len(newList)
    /\ last.called =>
          /\ last.slice.x1 <= last.snake.x1 /\ last.snake.x1 <= last.snake.x2
          /\ last.snake.x2 <= last.slice.x2
          /\ last.slice.y1 <= last.snake.y1 /\ last.snake.y1 <= last.snake.y2
          /\ last.snake.y2 <= last.slice.y2

\* The forward search of the slice just processed held an x beyond oldSize.
SliceInvariantWitness ==
    /\ last.called /\ ~Degenerate(last.slice) /\ pc = "loop"
    /\ \E idx \in DOMAIN forward : forward[idx] > last.slice.x2 - last.slice.x1
    /\ last.slice.x1 = 0 /\ last.slice.x2 = Len(oldList)
    /\ last.slice.y1 = 0 /\ last.slice.y2 = Len(newList)

\* C9: diffPartial reads no scratch entry it has not written itself, and the
\* recorded snakes and the returned operations are those of the code's order,
\* whichever pending slice is processed next.
OrderIndependent ==
    /\ ~last.stale
    /\ pc \in {"moves", "done"} => snakes = DiffSnakes(oldList, newList)
    /\ Returned =>
          editOperations = OperationsOf(DiffSnakes(oldList, newList),
                                        oldList, newList, detectMoves)

\* A slice with two non-empty sides was searched out of the code's order, on
\* scratch arrays an earlier search has written.
OrderIndependentWitness ==
    /\ last.called /\ ~last.top /\ ~Degenerate(last.slice)
    /\ last.slice /= Slice(0, Len(oldList), 0, Len(newList))

\* C10: every index of forward and backward that diffPartial uses lies in
\* 0 .. 2 * max - 1, and every element it compares lies in its list.
IndexSafe == ~last.oob

IndexSafeWitness ==
    /\ last.called /\ Len(oldList) = 1 /\ Len(newList) = 1
    /\ ~Degenerate(last.slice) /\ last.d = 1

====
